---- MODULE Spec2Model ----
(***************************************************************************)
(* The customer-segmentation pipeline of K_Means_Clust.ipynb as a state    *)
(* machine: StandardScaler.fit_transform, the K_range sweep (KMeans.fit,   *)
(* inertia_, silhouette_score), the final fit with optimal_k, the          *)
(* df['Cluster'] column and df.groupby('Cluster').mean().                  *)
(*                                                                         *)
(* Numbers.  The notebook computes in floating point; the model computes   *)
(* the same quantities exactly, in integers:                               *)
(*   - a standardized value (x - mean) / std of column j is kept as its    *)
(*     numerator z = N*x - sum_j together with V_j = N*sumsq_j - sum_j^2,  *)
(*     so the value is z / sqrt(V_j) (scale 1 for a constant column);      *)
(*   - a centre is kept as (s, n): the sum s of the z-vectors averaged     *)
(*     and their number n, so its position is s / n;                       *)
(*   - squared distances are compared after cross-multiplication;         *)
(*   - inertia_ is kept multiplied by InertiaScale.                        *)
(***************************************************************************)
EXTENDS Integers, Sequences, FiniteSets, TLC

VARIABLES
    df,                \* the DataFrame: Seq of [CustomerID, attrs]
    df_scaled,         \* the scaled table, or Null before
    K_range,           \* [lo, hi]: range(lo, hi)
    random_state,      \* the seed handed to every KMeans(...)
    max_iter,          \* KMeans max_iter
    k,                 \* loop variable of the sweep
    fit,               \* the running KMeans.fit call, or Null
    kmeans,            \* fitted attributes of the last sweep estimator
    wcss,              \* list wcss
    silhouette_scores, \* list silhouette_scores
    kmeans_final,      \* fitted attributes of kmeans_final
    cluster_labels,    \* df['Cluster'], or empty
    cluster_profile,   \* df.groupby('Cluster').mean(), or empty
    hist,              \* every completed fit, in call order (history)
    err,               \* the exception that ended the run, or "none"
    pc                 \* position in the notebook

vars == <<df, df_scaled, K_range, random_state, max_iter, k, fit, kmeans, wcss,
          silhouette_scores, kmeans_final, cluster_labels, cluster_profile,
          hist, err, pc>>

Null == [null |-> TRUE]

----------------------------------------------------------------------------
(* Bounds of the model and constants of the program *)

\* bounds: the largest dataset, the number of seeds, the largest max_iter
\* and the largest end of K_range tried
MaxN == 5
MaxSeed == 4
MaxIter == 2
MaxKHi == 5

\* K_range = range(2, 11) starts at 2
KLo == 2

\* optimal_k = 4
optimal_k == 4

\* max_iter of KMeans(n_clusters=..., random_state=42)
DefaultMaxIter == 300

\* the smallest dataset on which the silhouette at K = KLo is defined
MinN == KLo + 1

----------------------------------------------------------------------------
(* Arithmetic helpers *)

Max(a, b) == IF a >= b THEN a ELSE b

RECURSIVE SumTo(_, _)
SumTo(f, n) == IF n = 0 THEN 0 ELSE f[n] + SumTo(f, n - 1)

SumOf(f) == SumTo(f, Len(f))

RECURSIVE Gcd(_, _)
Gcd(a, b) == IF b = 0 THEN a ELSE Gcd(b, a % b)

Lcm(a, b) == (a * b) \div Gcd(a, b)

RECURSIVE LcmTo(_, _)
LcmTo(f, n) == IF n = 0 THEN 1 ELSE Lcm(f[n], LcmTo(f, n - 1))

RECURSIVE LcmUpTo(_)
LcmUpTo(n) == IF n <= 1 THEN 1 ELSE Lcm(n, LcmUpTo(n - 1))

----------------------------------------------------------------------------
(* The DataFrame *)

NSamples(frame) == Len(frame)

NFeatures(frame) == Len(frame[1].attrs)

MakeFrame(points) ==
    [i \in 1..Len(points) |-> [CustomerID |-> i, attrs |-> points[i]]]

\* df.drop('CustomerID', axis=1)
DropCustomerID(frame) == [i \in 1..Len(frame) |-> frame[i].attrs]

ColSum(X, j) == SumOf([i \in 1..Len(X) |-> X[i][j]])

ColSumSq(X, j) == SumOf([i \in 1..Len(X) |-> X[i][j] * X[i][j]])

\* N^2 times the population variance of column j
ColVarNum(X, j) == Len(X) * ColSumSq(X, j) - ColSum(X, j) * ColSum(X, j)

----------------------------------------------------------------------------
(* StandardScaler *)

\* as Centre, without the centring (with_mean=False)
CentreNone(X, i, j) == Len(X) * X[i][j]

\* with_mean: the numerator N*x - sum of the centred value x - mean
Centre(X, i, j) == Len(X) * X[i][j] - ColSum(X, j)

\* _handle_zeros_in_scale: a column of zero variance is scaled by 1
HandleZerosInScale(v) == IF v = 0 THEN 1 ELSE v

\* scaler.fit_transform(df_clean): z[i][j] / sqrt(v[j]) is the scaled value;
\* w[j] = lcm(v) / v[j] is the weight of column j in a squared distance
\* multiplied by lcm(v)
FitTransform(X) ==
    LET v == [j \in 1..Len(X[1]) |-> HandleZerosInScale(ColVarNum(X, j))]
    IN  [z |-> [i \in 1..Len(X) |-> [j \in 1..Len(X[1]) |-> Centre(X, i, j)]],
         v |-> v,
         w |-> [j \in 1..Len(X[1]) |-> LcmTo(v, Len(v)) \div v[j]]]

LcmV(S) == LcmTo(S.v, Len(S.v))

Weight(S, j) == S.w[j]

----------------------------------------------------------------------------
(* Distances between samples and centres *)

\* (squared distance from sample p to centre c) * LcmV * c.n^2
Dist2Num(S, p, c) ==
    SumOf([j \in 1..Len(p) |-> Weight(S, j) * (c.n * p[j] - c.s[j]) * (c.n * p[j] - c.s[j])])

\* sample p is strictly closer to centre a than to centre b
Closer(S, p, a, b) == Dist2Num(S, p, a) * b.n * b.n < Dist2Num(S, p, b) * a.n * a.n

\* argmin over the centres, the first minimum winning
Nearest(S, p, centers, K) ==
    CHOOSE c \in 0..(K - 1) :
        /\ \A o \in 0..(c - 1) : Closer(S, p, centers[c], centers[o])
        /\ \A o \in (c + 1)..(K - 1) : ~Closer(S, p, centers[o], centers[c])

\* the E-step of lloyd_iter: labels of all samples
AssignLabels(S, centers, K) ==
    [i \in 1..Len(S.z) |-> Nearest(S, S.z[i], centers, K)]

\* two centres at the same position
SamePos(a, b) == \A j \in 1..Len(a.s) : a.s[j] * b.n = b.s[j] * a.n

InertiaScale(S) == LcmV(S) * LcmUpTo(Len(S.z)) * LcmUpTo(Len(S.z))

\* as Dist2Scaled, summing the deviations instead of their squares
Dist2ScaledSigned(S, p, c) ==
    LET u == LcmUpTo(Len(S.z)) \div c.n
    IN  SumOf([j \in 1..Len(p) |-> Weight(S, j) * ((c.n * p[j] - c.s[j]) * u)])

\* (squared distance from sample p to centre c) * InertiaScale
Dist2Scaled(S, p, c) ==
    LET u == LcmUpTo(Len(S.z)) \div c.n
    IN  SumOf([j \in 1..Len(p) |->
            Weight(S, j) * ((c.n * p[j] - c.s[j]) * u) * ((c.n * p[j] - c.s[j]) * u)])

\* _inertia: sum of squared distances of the samples to their centres
Inertia(S, centers, labels) ==
    SumOf([i \in 1..Len(S.z) |-> Dist2Scaled(S, S.z[i], centers[labels[i]])])

----------------------------------------------------------------------------
(* The M-step of lloyd_iter *)

Members(labels, c) == {i \in 1..Len(labels) : labels[i] = c}

RECURSIVE VecSum(_, _, _)
VecSum(S, I, d) ==
    IF I = {} THEN [j \in 1..d |-> 0]
    ELSE LET i == CHOOSE x \in I : TRUE
             r == VecSum(S, I \ {i}, d)
         IN  [j \in 1..d |-> S.z[i][j] + r[j]]

\* sums and weights of the clusters before relocation
Accumulate(S, labels, K) ==
    [sums |-> [c \in 0..(K - 1) |-> VecSum(S, Members(labels, c), Len(S.v))],
     cnt  |-> [c \in 0..(K - 1) |-> Cardinality(Members(labels, c))]]

RECURSIVE EmptyFrom(_, _, _)
EmptyFrom(cnt, c, K) ==
    IF c >= K THEN <<>>
    ELSE (IF cnt[c] = 0 THEN <<c>> ELSE <<>>) \o EmptyFrom(cnt, c + 1, K)

\* sample a lies farther from its own centre than sample b from its own
Farther(S, centers, labels, a, b) ==
    LET ca == centers[labels[a]]
        cb == centers[labels[b]]
    IN  Dist2Num(S, S.z[a], ca) * cb.n * cb.n > Dist2Num(S, S.z[b], cb) * ca.n * ca.n

\* far_from_centers: the samples by decreasing distance to their centre
FarFromCenters(S, centers, labels) ==
    LET N == Len(S.z)
        Before(a, b) == \/ Farther(S, centers, labels, a, b)
                        \/ (~Farther(S, centers, labels, b, a) /\ a < b)
        Rank(i) == Cardinality({a \in 1..N : a # i /\ Before(a, i)})
    IN  [t \in 1..N |-> CHOOSE i \in 1..N : Rank(i) = t - 1]

RECURSIVE Relocate(_, _, _, _, _, _)
Relocate(acc, S, labels, far, empty, t) ==
    IF t > Len(empty) THEN acc
    ELSE LET new == empty[t]
             x   == S.z[far[t]]
             old == labels[far[t]]
             nxt == [sums |-> [acc.sums EXCEPT
                                  ![old] = [j \in 1..Len(x) |-> @[j] - x[j]],
                                  ![new] = x],
                     cnt  |-> [acc.cnt EXCEPT ![new] = 1, ![old] = @ - 1]]
         IN  Relocate(nxt, S, labels, far, empty, t + 1)

\* _relocate_empty_clusters_dense
RelocateEmptyClusters(acc, S, centers_old, labels, K) ==
    LET empty == EmptyFrom(acc.cnt, 0, K)
    IN  IF Len(empty) = 0 THEN acc
        ELSE Relocate(acc, S, labels, FarFromCenters(S, centers_old, labels), empty, 1)

\* as AverageCenters, dividing every sum by one more than its weight
AverageCentersOffByOne(acc, K) ==
    [c \in 0..(K - 1) |-> [s |-> acc.sums[c], n |-> acc.cnt[c] + 1]]

\* _average_centers: a centre of weight 0 is left as the sum it holds
AverageCenters(acc, K) ==
    [c \in 0..(K - 1) |->
        [s |-> acc.sums[c], n |-> IF acc.cnt[c] > 0 THEN acc.cnt[c] ELSE 1]]

\* as UpdateCenters, leaving every centre where it was
UpdateCentersFrozen(S, centers_old, labels, K) == centers_old

UpdateCenters(S, centers_old, labels, K) ==
    AverageCenters(
        RelocateEmptyClusters(Accumulate(S, labels, K), S, centers_old, labels, K), K)

\* center_shift_tot <= tol; on the model's grid a shift is 0 or above tol
WithinTol(centers_old, centers_new, K) ==
    \A c \in 0..(K - 1) : SamePos(centers_old[c], centers_new[c])

----------------------------------------------------------------------------
(* Seeding and initial centres *)

\* as RandomState, with one generator shared by all estimators: its state
\* depends on the fits made before
RandomStateShared(seed, calls) == ((seed + calls) * 37 + 11) % 720

\* check_random_state(random_state): a fresh generator per estimator,
\* whatever the number of fits made before
RandomState(seed, calls) == (seed * 37 + 11) % 720

RemoveAt(s, r) == [i \in 1..(Len(s) - 1) |-> IF i < r THEN s[i] ELSE s[i + 1]]

RECURSIVE Draw(_, _, _)
Draw(state, remaining, t) ==
    IF t = 0 THEN <<>>
    ELSE LET m == Len(remaining)
             r == (state % m) + 1
         IN  <<remaining[r]>> \o Draw(state \div m, RemoveAt(remaining, r), t - 1)

\* the indices of the K distinct samples taken as initial centres
InitIndices(state, N, K) == Draw(state, [i \in 1..N |-> i], K)

InitCenters(S, state, K) ==
    LET idx == InitIndices(state, Len(S.z), K)
    IN  [c \in 0..(K - 1) |-> [s |-> S.z[idx[c + 1]], n |-> 1]]

----------------------------------------------------------------------------
(* KMeans.fit: _kmeans_single_lloyd, one estimator *)

\* n_clusters >= 1 (parameter validation) and n_samples >= n_clusters
ValidK(K, N) == K >= 1 /\ K <= N

\* the state of a fit call right after the initial centres are chosen:
\* labels = full(-1), labels_old = labels.copy(), centers_new = zeros, i = 0
NewFit(S, K, seed, calls, phase) ==
    [n_clusters |-> K,
     phase      |-> phase,
     centers    |-> InitCenters(S, RandomState(seed, calls), K),
     centers_new |-> [c \in 0..(K - 1) |-> [s |-> [j \in 1..Len(S.v) |-> 0], n |-> 1]],
     labels     |-> [i \in 1..Len(S.z) |-> -1],
     labels_old |-> [i \in 1..Len(S.z) |-> -1],
     i          |-> 0,
     strict_convergence |-> FALSE,
     running    |-> TRUE,
     steps      |-> 0]

\* as LoopBody, never writing the labels of the E-step back
LoopBodyLabelsLost(S, f, cap) ==
    LET K       == f.n_clusters
        labels  == AssignLabels(S, f.centers, K)
        centers == UpdateCenters(S, f.centers, labels, K)
        strict  == labels = f.labels_old
        brk     == strict \/ WithinTol(f.centers, centers, K)
        last    == f.i + 1 >= cap
    IN  [f EXCEPT !.centers = centers,
                  !.centers_new = f.centers,
                  !.strict_convergence = strict,
                  !.labels_old = IF brk THEN @ ELSE labels,
                  !.i = IF brk \/ last THEN @ ELSE @ + 1,
                  !.running = ~(brk \/ last),
                  !.steps = @ + 1]

\* one pass of "for i in range(max_iter)": lloyd_iter, the swap
\* centers, centers_new = centers_new, centers (after it centers_new holds
\* the centres the pass started from), then the two tests that break the
\* loop; otherwise labels_old[:] = labels and the next i.
\* running is FALSE once the loop is left, by a break or at the last i
LoopBody(S, f, cap) ==
    LET K       == f.n_clusters
        labels  == AssignLabels(S, f.centers, K)
        centers == UpdateCenters(S, f.centers, labels, K)
        strict  == labels = f.labels_old
        brk     == strict \/ WithinTol(f.centers, centers, K)
        last    == f.i + 1 >= cap
    IN  [f EXCEPT !.labels = labels,
                  !.centers = centers,
                  !.centers_new = f.centers,
                  !.strict_convergence = strict,
                  !.labels_old = IF brk THEN @ ELSE labels,
                  !.i = IF brk \/ last THEN @ ELSE @ + 1,
                  !.running = ~(brk \/ last),
                  !.steps = @ + 1]

\* as NIter, returning the loop index itself
NIterIndex(f) == f.i

\* n_iter_ = i + 1
NIter(f) == f.i + 1

\* what the call returns: without strict convergence the E-step is run
\* once more so that the labels match the centres; then the inertia
FitResult(S, f) ==
    LET labels == IF f.strict_convergence THEN f.labels
                  ELSE AssignLabels(S, f.centers, f.n_clusters)
    IN  [n_clusters       |-> f.n_clusters,
         cluster_centers_ |-> f.centers,
         labels_          |-> labels,
         inertia_         |-> Inertia(S, f.centers, labels),
         n_iter_          |-> NIter(f),
         steps            |-> f.steps,
         strict           |-> f.strict_convergence]

----------------------------------------------------------------------------
(* silhouette_score *)

RECURSIVE ISqrtIn(_, _, _)
ISqrtIn(x, lo, hi) ==
    IF hi - lo <= 1 THEN lo
    ELSE LET mid == (lo + hi) \div 2
         IN  IF mid * mid <= x THEN ISqrtIn(x, mid, hi) ELSE ISqrtIn(x, lo, mid)

\* Euclidean distance between samples a and b, times 100 * sqrt(LcmV),
\* rounded down
PairDist(S, a, b) ==
    ISqrtIn(10000 * SumOf([j \in 1..Len(S.v) |->
                Weight(S, j) * (S.z[a][j] - S.z[b][j]) * (S.z[a][j] - S.z[b][j])]),
            0, 46341)

RECURSIVE DistSum(_, _, _)
DistSum(S, i, I) ==
    IF I = {} THEN 0
    ELSE LET o == CHOOSE x \in I : TRUE
         IN  PairDist(S, i, o) + DistSum(S, i, I \ {o})

\* LabelEncoder: the labels that occur
LabelsPresent(labels) == {labels[i] : i \in 1..Len(labels)}

\* check_number_of_labels: 1 < n_labels < n_samples
ValidNumberOfLabels(labels) ==
    /\ Cardinality(LabelsPresent(labels)) > 1
    /\ Cardinality(LabelsPresent(labels)) < Len(labels)

Min(a, b) == IF a <= b THEN a ELSE b

\* as SilhouetteQuotient, dividing by min(a, b)
SilhouetteQuotientMin(aNum, aDen, bNum, bDen) ==
    IF aDen = 0 \/ Min(aNum * bDen, bNum * aDen) = 0
    THEN [num |-> 0, den |-> 1]
    ELSE [num |-> bNum * aDen - aNum * bDen,
          den |-> Min(aNum * bDen, bNum * aDen)]

\* the quotient (b - a) / max(a, b) as [num, den]; nan_to_num gives 0
SilhouetteQuotient(aNum, aDen, bNum, bDen) ==
    IF aDen = 0 \/ Max(aNum * bDen, bNum * aDen) = 0
    THEN [num |-> 0, den |-> 1]
    ELSE [num |-> bNum * aDen - aNum * bDen,
          den |-> Max(aNum * bDen, bNum * aDen)]

\* silhouette_samples for sample i: a = aNum / aDen is the mean distance to
\* the other samples of its cluster, b = bNum / bDen the least mean distance
\* to the samples of another cluster
SilhouetteSample(S, labels, i) ==
    LET own    == Members(labels, labels[i])
        others == LabelsPresent(labels) \ {labels[i]}
        best   == CHOOSE c \in others : \A o \in others :
                      DistSum(S, i, Members(labels, c)) * Cardinality(Members(labels, o))
                      <= DistSum(S, i, Members(labels, o)) * Cardinality(Members(labels, c))
    IN  SilhouetteQuotient(DistSum(S, i, own \ {i}), Cardinality(own) - 1,
                           DistSum(S, i, Members(labels, best)),
                           Cardinality(Members(labels, best)))

\* silhouette_score: the mean of the samples, kept as the list of its terms
SilhouetteScore(S, labels) ==
    [i \in 1..Len(labels) |-> SilhouetteSample(S, labels, i)]

----------------------------------------------------------------------------
(* df.groupby('Cluster').mean() *)

\* a mean is kept as [sum, n]
MeanOf(f, I) ==
    [sum |-> SumOf([t \in 1..Len(f) |-> IF t \in I THEN f[t] ELSE 0]),
     n   |-> Cardinality(I)]

\* every column of df but the group key is averaged, CustomerID included
GroupByMean(frame, labels) ==
    [c \in LabelsPresent(labels) |->
        [CustomerID |-> MeanOf([i \in 1..Len(frame) |-> frame[i].CustomerID],
                               Members(labels, c)),
         attrs |-> [j \in 1..NFeatures(frame) |->
                       MeanOf([i \in 1..Len(frame) |-> frame[i].attrs[j]],
                              Members(labels, c))]]]

----------------------------------------------------------------------------
(* The inputs *)

\* the attribute vectors of the bounded datasets: two attributes in 0..1
Points == {<<a, b>> : a \in 0..1, b \in 0..1}

Rank(p) == 2 * p[1] + p[2]

\* the datasets of n records, in non-decreasing order of their points
GridDatasets(n) ==
    {d \in [1..n -> Points] : \A i \in 1..(n - 1) : Rank(d[i]) <= Rank(d[i + 1])}

\* the scenario of the two separated groups of three points
SixPoints == <<(<<0, 0>>), (<<0, 1>>), (<<1, 0>>), (<<10, 10>>), (<<10, 11>>), (<<11, 10>>)>>

\* a scenario with one attribute and two unequal groups
ElbowPoints == <<(<<0>>), (<<1>>), (<<2>>), (<<5>>), (<<6>>), (<<8>>)>>

\* a scenario with one attribute, two equal records and one record far off
RelocationPoints == <<(<<1>>), (<<1>>), (<<0>>), (<<3>>)>>

----------------------------------------------------------------------------
(* The notebook, cell by cell *)

Start(frames, ranges, seeds, caps) ==
    /\ df \in frames
    /\ K_range \in ranges
    /\ random_state \in seeds
    /\ max_iter \in caps
    /\ df_scaled = Null
    /\ k = 0
    /\ fit = Null
    /\ kmeans = Null
    /\ wcss = <<>>
    /\ silhouette_scores = <<>>
    /\ kmeans_final = Null
    /\ cluster_labels = <<>>
    /\ cluster_profile = <<>>
    /\ hist = <<>>
    /\ err = "none"
    /\ pc = "scale"

Init ==
    Start({MakeFrame(d) : d \in UNION {GridDatasets(n) : n \in MinN..MaxN}},
          {[lo |-> lo, hi |-> hi] : lo \in 0..KLo, hi \in (KLo + 1)..MaxKHi},
          0..(MaxSeed - 1),
          1..MaxIter)

\* df_clean = df.drop('CustomerID'); df_scaled = scaler.fit_transform(df_clean);
\* then wcss = [], silhouette_scores = [] and the first k of K_range
Standardize ==
    /\ pc = "scale"
    /\ df_scaled' = FitTransform(DropCustomerID(df))
    /\ k' = K_range.lo
    /\ pc' = IF K_range.lo < K_range.hi THEN "loop" ELSE "final"
    /\ UNCHANGED <<df, K_range, random_state, max_iter, fit, kmeans, wcss,
                   silhouette_scores, kmeans_final, cluster_labels,
                   cluster_profile, hist, err>>

\* the start of a fit call: the parameters are checked, then the initial
\* centres are chosen
BeginFit(K, phase) ==
    /\ IF ValidK(K, NSamples(df))
       THEN /\ fit' = NewFit(df_scaled, K, random_state, Len(hist), phase)
            /\ pc' = "iter"
            /\ err' = err
       ELSE /\ fit' = fit
            /\ pc' = "error"
            /\ err' = "ValueError"
    /\ UNCHANGED <<df, df_scaled, K_range, random_state, max_iter, k, kmeans,
                   wcss, silhouette_scores, kmeans_final, cluster_labels,
                   cluster_profile, hist>>

\* kmeans = KMeans(n_clusters=k, random_state=42); kmeans.fit(df_scaled)
SweepFit ==
    /\ pc = "loop"
    /\ BeginFit(k, "sweep")

\* kmeans_final = KMeans(n_clusters=optimal_k, random_state=42), fit_predict
FinalFit ==
    /\ pc = "final"
    /\ BeginFit(optimal_k, "final")

\* one iteration of Lloyd's loop inside the fit call
LloydIter ==
    /\ pc = "iter"
    /\ fit' = LoopBody(df_scaled, fit, max_iter)
    /\ pc' = IF fit'.running THEN "iter"
             ELSE IF fit.phase = "sweep" THEN "fitted" ELSE "predicted"
    /\ UNCHANGED <<df, df_scaled, K_range, random_state, max_iter, k, kmeans,
                   wcss, silhouette_scores, kmeans_final, cluster_labels,
                   cluster_profile, hist, err>>

\* kmeans.fit returns: the fitted attributes of kmeans
SweepFitReturn ==
    /\ pc = "fitted"
    /\ kmeans' = FitResult(df_scaled, fit)
    /\ hist' = Append(hist, kmeans')
    /\ pc' = "wcss"
    /\ UNCHANGED <<df, df_scaled, K_range, random_state, max_iter, k, fit, wcss,
                   silhouette_scores, kmeans_final, cluster_labels,
                   cluster_profile, err>>

\* wcss.append(kmeans.inertia_)
AppendWcss ==
    /\ pc = "wcss"
    /\ wcss' = Append(wcss, kmeans.inertia_)
    /\ pc' = "sil"
    /\ UNCHANGED <<df, df_scaled, K_range, random_state, max_iter, k, fit, kmeans,
                   silhouette_scores, kmeans_final, cluster_labels,
                   cluster_profile, hist, err>>

\* silhouette_avg = silhouette_score(df_scaled, kmeans.labels_);
\* silhouette_scores.append(silhouette_avg); then the next k of K_range
Silhouette ==
    /\ pc = "sil"
    /\ IF ValidNumberOfLabels(kmeans.labels_)
       THEN /\ silhouette_scores' =
                   Append(silhouette_scores, SilhouetteScore(df_scaled, kmeans.labels_))
            /\ k' = k + 1
            /\ pc' = IF k + 1 < K_range.hi THEN "loop" ELSE "final"
            /\ err' = err
       ELSE /\ silhouette_scores' = silhouette_scores
            /\ k' = k
            /\ pc' = "error"
            /\ err' = "ValueError"
    /\ UNCHANGED <<df, df_scaled, K_range, random_state, max_iter, fit, kmeans,
                   wcss, kmeans_final, cluster_labels, cluster_profile, hist>>

\* cluster_labels = kmeans_final.fit_predict(df_scaled); df['Cluster'] = cluster_labels
FinalFitPredict ==
    /\ pc = "predicted"
    /\ kmeans_final' = FitResult(df_scaled, fit)
    /\ cluster_labels' = kmeans_final'.labels_
    /\ hist' = Append(hist, kmeans_final')
    /\ pc' = "profile"
    /\ UNCHANGED <<df, df_scaled, K_range, random_state, max_iter, k, fit, kmeans,
                   wcss, silhouette_scores, cluster_profile, err>>

\* cluster_profile = df.groupby('Cluster').mean()
Profile ==
    /\ pc = "profile"
    /\ cluster_profile' = GroupByMean(df, cluster_labels)
    /\ pc' = "done"
    /\ UNCHANGED <<df, df_scaled, K_range, random_state, max_iter, k, fit, kmeans,
                   wcss, silhouette_scores, kmeans_final, cluster_labels, hist, err>>

Next ==
    \/ Standardize
    \/ SweepFit
    \/ FinalFit
    \/ LloydIter
    \/ SweepFitReturn
    \/ AppendWcss
    \/ Silhouette
    \/ FinalFitPredict
    \/ Profile

Spec == Init /\ [][Next]_vars

\* the scenarios, under every initial choice of centres (the 720 states
\* of the generator), with the default max_iter and K_range = range(2, 4)
InitScenario ==
    Start({MakeFrame(SixPoints), MakeFrame(ElbowPoints), MakeFrame(RelocationPoints)},
          {[lo |-> KLo, hi |-> optimal_k]},
          0..719,
          {DefaultMaxIter})

SpecScenario == InitScenario /\ [][Next]_vars

----------------------------------------------------------------------------
(* Claims *)

N == NSamples(df)

\* a fit call is between the choice of its centres and its return
InFit == pc \in {"iter", "fitted", "predicted"}

\* labels gives each of the N samples one cluster index in [0, K)
TotalAssignment(labels, K) ==
    /\ Len(labels) = N
    /\ \A i \in 1..N : labels[i] \in 0..(K - 1)

\* C1 as stated: in every state of a fit run after the initial centres are
\* chosen, and in every returned result, each of the N samples has exactly
\* one cluster index, in [0, K)
C1_AssignmentTotalAfterInit ==
    /\ InFit => TotalAssignment(fit.labels, fit.n_clusters)
    /\ \A t \in 1..Len(hist) : TotalAssignment(hist[t].labels_, hist[t].n_clusters)

\* C1 amended: in every state of a fit run after its first assignment step,
\* in every returned result and in df['Cluster'], each of the N samples has
\* exactly one cluster index, in [0, K)
C1_AssignmentTotalAfterFirstStep ==
    /\ (InFit /\ fit.steps >= 1) => TotalAssignment(fit.labels, fit.n_clusters)
    /\ \A t \in 1..Len(hist) : TotalAssignment(hist[t].labels_, hist[t].n_clusters)
    /\ pc \in {"profile", "done"} => TotalAssignment(cluster_labels, optimal_k)

C1_Witness ==
    /\ pc = "iter"
    /\ fit.steps >= 1
    /\ Len(hist) >= 1
    /\ hist[1].n_clusters <= N

C3_FitReturnsWithinCap ==
    /\ pc = "iter" => /\ fit.running
                      /\ fit.steps = fit.i
                      /\ fit.i < max_iter
    /\ pc \in {"fitted", "predicted"} =>
          /\ ~fit.running
          /\ fit.steps = fit.i + 1
          /\ fit.steps <= max_iter
    /\ \A t \in 1..Len(hist) :
          /\ hist[t].n_iter_ >= 1
          /\ hist[t].n_iter_ <= max_iter
          /\ hist[t].n_iter_ = hist[t].steps

C3_Witness ==
    /\ pc = "wcss"
    /\ kmeans.n_iter_ = max_iter
    /\ ~kmeans.strict
    /\ max_iter > 1

AllConverged == \A t \in 1..Len(hist) : hist[t].strict

Grouped(labels) ==
    /\ labels[1] = labels[2] /\ labels[2] = labels[3]
    /\ labels[4] = labels[5] /\ labels[5] = labels[6]
    /\ labels[1] # labels[4]

\* C5: on the six points, standardized, the fit with K = 2 converges for
\* every choice of two initial centres, to the two groups of three
C5_SixPointsGrouped ==
    df = MakeFrame(SixPoints) =>
        \A t \in 1..Len(hist) :
            hist[t].n_clusters = 2 => hist[t].strict /\ Grouped(hist[t].labels_)

\* both initial centres in the first group, and the groups found
C5_Witness ==
    /\ df = MakeFrame(SixPoints)
    /\ InitIndices(RandomState(random_state, 0), 6, 2) = <<2, 3>>
    /\ Len(hist) >= 1
    /\ hist[1].n_clusters = 2
    /\ Grouped(hist[1].labels_)

\* the K of the t-th entry of the sweep's lists
SweepK(t) == K_range.lo + t - 1

\* C6 as stated: a fit with K = 0 or K = N + 1 and a silhouette evaluation
\* with K = 1 or K = N end in an error raised before any centre is chosen,
\* and no partial result or curve record is left for that K
C6_InvalidKRejectedEagerly ==
    /\ \A t \in 1..Len(hist) : ValidK(hist[t].n_clusters, N)
    /\ InFit => ValidK(fit.n_clusters, N)
    /\ \A t \in 1..Len(silhouette_scores) : SweepK(t) > 1 /\ SweepK(t) < N
    /\ pc = "error" =>
          /\ err = "ValueError"
          /\ Len(wcss) = Len(silhouette_scores)
          /\ \A t \in 1..Len(hist) : hist[t].n_clusters # k

\* the sweep was ended by silhouette_score: wcss holds one entry more
SilhouetteRaised == pc = "error" /\ Len(wcss) = Len(silhouette_scores) + 1

\* every sample score of every silhouette computed lies in [-1, 1]
ScoresInRange ==
    \A t \in 1..Len(silhouette_scores) :
        \A i \in 1..N :
            /\ silhouette_scores[t][i].den > 0
            /\ silhouette_scores[t][i].num <= silhouette_scores[t][i].den
            /\ -silhouette_scores[t][i].num <= silhouette_scores[t][i].den

\* C7 as stated: for every result with 1 < K < N the score of every sample
\* is defined and lies in [-1, 1], duplicates and empty clusters included
C7_SilhouetteDefinedInRange ==
    /\ ScoresInRange
    /\ SilhouetteRaised => ~(1 < k /\ k < N)

\* C7 amended: for every result with 1 < K < N whose labels name at least
\* two clusters the score of every sample is defined and lies in [-1, 1]
\* (0 in a cluster of one sample); when all samples share one label, as
\* with a dataset of identical points, silhouette_score raises ValueError
C7_SilhouetteInRangeFromTwoLabels ==
    /\ ScoresInRange
    /\ \A t \in 1..Len(silhouette_scores) :
          \A i \in 1..N :
              Cardinality(Members(hist[t].labels_, hist[t].labels_[i])) = 1
                  => silhouette_scores[t][i].num = 0
    /\ (SilhouetteRaised /\ 1 < k /\ k < N) =>
          Cardinality(LabelsPresent(kmeans.labels_)) = 1
    /\ (pc = "sil" /\ 1 < k /\ k < N
           /\ Cardinality(LabelsPresent(kmeans.labels_)) >= 2) =>
          ValidNumberOfLabels(kmeans.labels_)

\* scores other than 0 on a dataset with duplicate points, one of the K
\* clusters empty
C7_Witness ==
    \E t \in 1..Len(silhouette_scores) :
        /\ \E i \in 1..N : silhouette_scores[t][i].num # 0
        /\ \E i, j \in 1..N : i # j /\ df[i].attrs = df[j].attrs
        /\ Cardinality(LabelsPresent(hist[t].labels_)) < hist[t].n_clusters

\* C8: a fit with K = N returns a result of WCSS 0
C8_WcssZeroAtKEqualsN ==
    \A t \in 1..Len(hist) : hist[t].n_clusters = N => hist[t].inertia_ = 0

\* a fit with K = N on samples that are not all at the mean
C8_Witness ==
    /\ Len(hist) >= 1
    /\ hist[Len(hist)].n_clusters = N
    /\ \E i \in 1..N : \E j \in 1..NFeatures(df) : df_scaled.z[i][j] # 0

ConstantColumn(j) == \A i \in 1..N : df[i].attrs[j] = df[1].attrs[j]

\* C9 as stated: with a constant column the standardizer fails with a
\* DegenerateFeatureError and returns no table
C9_ConstantColumnRejected ==
    (pc # "scale" /\ \E j \in 1..NFeatures(df) : ConstantColumn(j)) =>
        err = "DegenerateFeatureError" /\ df_scaled = Null

\* C9 amended: with a constant column the standardizer raises nothing and
\* returns the table, the constant column scaled by 1, all its values 0
C9_ConstantColumnScaledToZero ==
    pc # "scale" =>
        /\ df_scaled # Null
        /\ Len(df_scaled.z) = N
        /\ pc = "loop" /\ k = K_range.lo => err = "none"
        /\ \A j \in 1..NFeatures(df) :
              ConstantColumn(j) =>
                  /\ df_scaled.v[j] = 1
                  /\ \A i \in 1..N : df_scaled.z[i][j] = 0

\* a constant column of value 1 beside a column that varies
C9_Witness ==
    /\ pc = "loop"
    /\ ConstantColumn(1)
    /\ df[1].attrs[1] = 1
    /\ ~ConstantColumn(2)

\* the mean [sum, n] of attribute j over the samples labelled c
AttrMean(j, c) ==
    MeanOf([i \in 1..N |-> df[i].attrs[j]], Members(cluster_labels, c))

\* C10 as stated: the profile maps each cluster to the means of the
\* original attributes over the samples assigned to it, and the identifier
\* takes no part in it
C10_ProfileOfAttributesOnly ==
    pc = "done" =>
        \A c \in DOMAIN cluster_profile :
            /\ DOMAIN cluster_profile[c] = {"attrs"}
            /\ \A j \in 1..NFeatures(df) : cluster_profile[c].attrs[j] = AttrMean(j, c)

\* the mean of the samples labelled c, as a centre [s, n]
MeanOfAssigned(c) ==
    [s |-> VecSum(df_scaled, Members(fit.labels, c), Len(df_scaled.v)),
     n |-> Cardinality(Members(fit.labels, c))]

Wcss(centers, labels) == Inertia(df_scaled, centers, labels)

====
